---- MODULE Spec2Model ----
(***************************************************************************)
(* SentinelAI: the diff-processing engine (DiffService: splitByFile,       *)
(* isNoise, cleanPatch, truncate, buildLineMap, parse, serialize) and the  *)
(* reconciler of AI annotations (buildGithubComments).                     *)
(*                                                                         *)
(* Texts are TLA+ strings; a character is a string of length 1 and         *)
(* positions are 1-based here (the source's are 0-based).  The truncation  *)
(* marker's dash is written '-' (one UTF-16 unit, as in the source).       *)
(***************************************************************************)
EXTENDS Integers, Sequences, FiniteSets, TLC

VARIABLES
    rawDiff,        \* parse(): the argument
    maxTotalChars,  \* DiffService.maxTotalChars
    pc,             \* position of the run
    rawFiles,       \* parse(): the sections of splitByFile
    idx,            \* parse(): index of the next section of the for loop
    results,        \* parse(): FileDiff[] accumulated
    totalChars,     \* parse(): running total
    lastCall,       \* parse(): the truncate call of the last iteration and what it returned
    fileMap,        \* handler: Map path -> FileDiff (a sequence, last entry of a path wins)
    comments,       \* buildGithubComments: the annotations consumed so far
    resolved,       \* buildGithubComments: result[]
    seen,           \* buildGithubComments: the dedupe keys
    rvPc,           \* AIService.review: position ("idle" when no review runs)
    attempt,        \* withRetry: the loop variable
    llmCalls,       \* withRetry: the outcomes of the calls of fn made so far
    waits,          \* withRetry: the delays waited so far, in ms
    rvOut,          \* AIService.review: what it returned or threw, in a 1-tuple
    cache,          \* sentinelConfigCache: the entries of the Map in insertion order
    loads,          \* loadSentinelConfig: the calls in progress, by webhook run
    nextSha,        \* the next head commit no run has named yet
    hPc,            \* PR handler: position of the run ("idle" when none runs)
    sentinelCfg,    \* PR handler: what loadSentinelConfig returned, in a 1-tuple
    effects,        \* PR handler: the GitHub API calls settled so far, in order
    reviewLog,      \* dashboard.ts: reviewLog
    loaded,         \* index.ts: the loaded flag of the module
    factoryCalls,   \* index.ts: the calls of sentinelAI made so far, with their arguments
    registered      \* the registrations made so far: the function and the app it got

vars == <<rawDiff, maxTotalChars, pc, rawFiles, idx, results, totalChars,
          lastCall, fileMap, comments, resolved, seen,
          rvPc, attempt, llmCalls, waits, rvOut,
          cache, loads, nextSha, hPc, sentinelCfg, effects, reviewLog,
          loaded, factoryCalls, registered>>

parseVars == <<rawDiff, maxTotalChars, rawFiles, idx, results, totalChars,
               lastCall>>
reconVars == <<fileMap, comments, resolved, seen>>
reviewVars == <<rvPc, attempt, llmCalls, waits, rvOut>>
cacheVars == <<cache, loads, nextSha>>
handlerVars == <<hPc, sentinelCfg, effects, reviewLog>>
appVars == <<reviewVars, cacheVars, handlerVars>>
indexVars == <<loaded, factoryCalls, registered>>

(***************************************************************************)
(* Bounds of the model.                                                    *)
(***************************************************************************)
MaxLines == 4        \* lines of a raw diff of several files
MaxBodyLines == 4    \* lines of the section of a raw diff of one file
MaxComments == 2     \* annotations of one batch
MaxRuns == 2         \* webhook runs that can be in loadSentinelConfig at a time
MaxFactoryCalls == 4  \* calls of sentinelAI in one process
MaxNewShas == 3      \* head commits the webhook runs name beyond those cached at the start

(***************************************************************************)
(* String primitives of the JavaScript runtime, as the source uses them.   *)
(***************************************************************************)
Min(a, b) == IF a <= b THEN a ELSE b
Max(a, b) == IF a >= b THEN a ELSE b
Abs(n) == IF n < 0 THEN -n ELSE n

CharAt(s, i) == SubSeq(s, i, i)

\* s.startsWith(p)
StartsWith(s, p) == Len(s) >= Len(p) /\ SubSeq(s, 1, Len(p)) = p

\* p occurs in s at (1-based) position i
MatchesAt(s, i, p) == i >= 1 /\ i + Len(p) - 1 <= Len(s) /\ SubSeq(s, i, i + Len(p) - 1) = p

\* /p$/.test(s)
EndsWith(s, p) == MatchesAt(s, Len(s) - Len(p) + 1, p)

\* /p/.test(s)
Contains(s, p) == \E i \in 1..Len(s) : MatchesAt(s, i, p)

\* s.slice(0, n), n >= 0
Slice(s, n) == SubSeq(s, 1, Min(n, Len(s)))

\* s.split("\n"): the pieces of s from position start on
RECURSIVE SplitFrom(_, _)
SplitFrom(s, start) ==
    LET nls == {i \in start..Len(s) : CharAt(s, i) = "\n"}
    IN  IF nls = {} THEN <<SubSeq(s, start, Len(s))>>
        ELSE LET n == CHOOSE i \in nls : \A j \in nls : i <= j
             IN  <<SubSeq(s, start, n - 1)>> \o SplitFrom(s, n + 1)
SplitLines(s) == SplitFrom(s, 1)

\* lines.join("\n")
RECURSIVE JoinLines(_)
JoinLines(lines) ==
    IF Len(lines) = 0 THEN ""
    ELSE IF Len(lines) = 1 THEN lines[1]
    ELSE lines[1] \o "\n" \o JoinLines(Tail(lines))

\* s.lastIndexOf("\n", position): the source's 0-based index, -1 when there is none
LastIndexOfNewline(s, position) ==
    LET from == Min(Max(position, 0), Len(s))
        hits == {j \in 0..from : j + 1 <= Len(s) /\ CharAt(s, j + 1) = "\n"}
    IN  IF hits = {} THEN -1 ELSE CHOOSE j \in hits : \A k \in hits : k <= j

\* s.trim(), the white space of the model's alphabet being ' ' and '\n'
IsSpace(c) == c \in {" ", "\n", "\t", "\r"}
RECURSIVE TrimLeft(_)
TrimLeft(s) == IF Len(s) > 0 /\ IsSpace(CharAt(s, 1)) THEN TrimLeft(Tail(s)) ELSE s
RECURSIVE TrimRight(_)
TrimRight(s) ==
    IF Len(s) > 0 /\ IsSpace(CharAt(s, Len(s))) THEN TrimRight(SubSeq(s, 1, Len(s) - 1)) ELSE s
Trim(s) == TrimRight(TrimLeft(s))

IsDigit(c) == c \in {"0", "1", "2", "3", "4", "5", "6", "7", "8", "9"}
DigitValue(c) ==
    CASE c = "0" -> 0 [] c = "1" -> 1 [] c = "2" -> 2 [] c = "3" -> 3 [] c = "4" -> 4
      [] c = "5" -> 5 [] c = "6" -> 6 [] c = "7" -> 7 [] c = "8" -> 8 [] c = "9" -> 9

\* the position after the longest run of digits of s that starts at i (\d+ is greedy)
RECURSIVE DigitsEnd(_, _)
DigitsEnd(s, i) == IF i <= Len(s) /\ IsDigit(CharAt(s, i)) THEN DigitsEnd(s, i + 1) ELSE i

\* parseInt(d, 10) of a string of digits
RECURSIVE ParseInt(_)
ParseInt(d) ==
    IF Len(d) = 0 THEN 0
    ELSE 10 * ParseInt(SubSeq(d, 1, Len(d) - 1)) + DigitValue(CharAt(d, Len(d)))

(***************************************************************************)
(* DiffService (diff.ts).                                                  *)
(***************************************************************************)

\* NOISE_PATH_PATTERNS.some((re) => re.test(path))
MatchesNoisePattern(path) ==
    \/ EndsWith(path, "package-lock.json")
    \/ EndsWith(path, "yarn.lock")
    \/ EndsWith(path, "pnpm-lock.yaml")
    \/ EndsWith(path, "composer.lock")
    \/ EndsWith(path, "Gemfile.lock")
    \/ EndsWith(path, "poetry.lock")
    \/ EndsWith(path, ".min.js")
    \/ EndsWith(path, ".min.css")
    \/ Contains(path, "dist/")
    \/ Contains(path, "build/")
    \/ Contains(path, ".next/")
    \/ Contains(path, "coverage/")

\* BINARY_HEADER.test(raw): /^Binary files / has no m flag, so ^ is the start of raw only
BinaryHeaderTest(raw) == StartsWith(raw, "Binary files ")

isNoise(path, raw) ==
    IF MatchesNoisePattern(path) THEN TRUE
    ELSE IF BinaryHeaderTest(raw) THEN TRUE
    ELSE FALSE

\* the positions where diff.split(/^(?=diff --git )/m) cuts: a line start other than the
\* start of the text (an empty match at the start of a piece does not split)
SplitPoints(diff) ==
    {q \in 2..Len(diff) : CharAt(diff, q - 1) = "\n" /\ MatchesAt(diff, q, "diff --git ")}

RECURSIVE CutAt(_, _, _)
CutAt(diff, start, points) ==
    LET later == {q \in points : q > start}
    IN  IF later = {} THEN <<SubSeq(diff, start, Len(diff))>>
        ELSE LET next == CHOOSE q \in later : \A r \in later : q <= r
             IN  <<SubSeq(diff, start, next - 1)>> \o CutAt(diff, next, points)

\* /^diff --git a\/.+ b\/(.+)$/ on one line: the capture in a 1-tuple, or <<>>.
\* The first .+ is greedy, so the ' b/' taken is the last one that leaves a capture.
HeaderCapture(line) ==
    LET pre == "diff --git a/"
        ks == {k \in (Len(pre) + 2)..(Len(line) - 3) : MatchesAt(line, k, " b/")}
    IN  IF StartsWith(line, pre) /\ ks # {}
        THEN LET k == CHOOSE x \in ks : \A y \in ks : y <= x
             IN  <<SubSeq(line, k + 3, Len(line))>>
        ELSE <<>>

\* section.match(/^diff --git a\/.+ b\/(.+)$/m): the first line of the section that matches
SectionPath(section) ==
    LET lines == SplitLines(section)
        hits == {i \in 1..Len(lines) : HeaderCapture(lines[i]) # <<>>}
    IN  IF hits = {} THEN ""
        ELSE Trim(HeaderCapture(lines[CHOOSE i \in hits : \A j \in hits : i <= j])[1])

splitByFile(diff) ==
    LET sections == SelectSeq(CutAt(diff, 1, SplitPoints(diff)), LAMBDA x : x # "")
        files == [i \in 1..Len(sections) |-> [path |-> SectionPath(sections[i]), raw |-> sections[i]]]
    IN  SelectSeq(files, LAMBDA f : Len(f.path) > 0)

KeepLine(line) ==
    IF StartsWith(line, "@@") THEN TRUE
    ELSE IF StartsWith(line, "+") THEN TRUE
    ELSE IF StartsWith(line, "-") THEN TRUE
    ELSE IF StartsWith(line, " ") THEN TRUE
    ELSE FALSE

cleanPatch(raw) == JoinLines(SelectSeq(SplitLines(raw), KeepLine))

TruncationMarker == "\n// [truncated - diff too large]"

\* a faulty truncate: a patch that does not fit is dropped instead of cut
truncate_DropsOversize(patch, remaining) ==
    IF remaining <= 0 THEN <<>>
    ELSE IF Len(patch) <= remaining THEN <<patch>>
    ELSE <<>>

\* null is <<>>, a string s is <<s>>
truncate(patch, remaining) ==
    IF remaining <= 0 THEN <<>>
    ELSE IF Len(patch) <= remaining THEN <<patch>>
    ELSE LET cut == LastIndexOfNewline(patch, remaining)
             sliced == IF cut > 0 THEN Slice(patch, cut) ELSE Slice(patch, remaining)
         IN  <<sliced \o TruncationMarker>>

\* line.match(/^@@ -\d+(?:,\d+)? \+(\d+)(?:,\d+)? @@/): the capture in a 1-tuple, or <<>>
OptCount(line, i) ==
    IF MatchesAt(line, i, ",") /\ DigitsEnd(line, i + 1) > i + 1 THEN DigitsEnd(line, i + 1) ELSE i
HunkMatch(line) ==
    LET e1 == DigitsEnd(line, 5)
        e2 == OptCount(line, e1)
        e3 == DigitsEnd(line, e2 + 2)
        e4 == OptCount(line, e3)
    IN  IF /\ StartsWith(line, "@@ -")
           /\ e1 > 5
           /\ MatchesAt(line, e2, " +")
           /\ e3 > e2 + 2
           /\ MatchesAt(line, e4, " @@")
        THEN <<SubSeq(line, e2 + 2, e3 - 1)>>
        ELSE <<>>

\* a faulty loop body: a hunk header sets the counter to c, not c - 1
LineMapStep_StartNotDecremented(st, line) ==
    LET i == st.diffLineIndex + 1
        hunkMatch == HunkMatch(line)
    IN  IF hunkMatch # <<>>
        THEN [st EXCEPT !.diffLineIndex = i, !.newFileLine = ParseInt(hunkMatch[1])]
        ELSE IF StartsWith(line, "+")
        THEN [diffLineIndex |-> i, newFileLine |-> st.newFileLine + 1,
              map |-> Append(st.map, [k |-> i, v |-> st.newFileLine + 1])]
        ELSE IF StartsWith(line, " ")
        THEN [st EXCEPT !.diffLineIndex = i, !.newFileLine = st.newFileLine + 1]
        ELSE [st EXCEPT !.diffLineIndex = i]

\* one iteration of the for loop of buildLineMap; the Map is the sequence of its
\* entries [k, v] in insertion order
LineMapStep(st, line) ==
    LET i == st.diffLineIndex + 1
        hunkMatch == HunkMatch(line)
    IN  IF hunkMatch # <<>>
        THEN [st EXCEPT !.diffLineIndex = i, !.newFileLine = ParseInt(hunkMatch[1]) - 1]
        ELSE IF StartsWith(line, "+")
        THEN [diffLineIndex |-> i, newFileLine |-> st.newFileLine + 1,
              map |-> Append(st.map, [k |-> i, v |-> st.newFileLine + 1])]
        ELSE IF StartsWith(line, " ")
        THEN [st EXCEPT !.diffLineIndex = i, !.newFileLine = st.newFileLine + 1]
        ELSE [st EXCEPT !.diffLineIndex = i]

RECURSIVE LineMapWalk(_, _)
LineMapWalk(st, lines) ==
    IF Len(lines) = 0 THEN st ELSE LineMapWalk(LineMapStep(st, Head(lines)), Tail(lines))

buildLineMap(patch) ==
    LineMapWalk([diffLineIndex |-> 0, newFileLine |-> 0, map |-> <<>>], SplitLines(patch)).map

\* a faulty accounting: the total grows by the length of the patch before truncation
AcceptSection_CountsUncutPatch(st, f, call, truncated) ==
    IF truncated = <<>> \/ truncated = <<"">>
    THEN [st EXCEPT !.call = <<[call EXCEPT !.out = truncated]>>]
    ELSE [call |-> <<[call EXCEPT !.out = truncated]>>,
          totalChars |-> st.totalChars + Len(call.patch),
          results |-> Append(st.results,
                             [path |-> f.path, patch |-> truncated[1],
                              lineMap |-> buildLineMap(truncated[1])]),
          halted |-> st.totalChars + Len(call.patch) >= maxTotalChars]

\* a faulty break: the loop is left only when the total is above the limit
AcceptSection_HaltsOnlyAbove(st, f, call, truncated) ==
    IF truncated = <<>> \/ truncated = <<"">>
    THEN [st EXCEPT !.call = <<[call EXCEPT !.out = truncated]>>]
    ELSE [call |-> <<[call EXCEPT !.out = truncated]>>,
          totalChars |-> st.totalChars + Len(truncated[1]),
          results |-> Append(st.results,
                             [path |-> f.path, patch |-> truncated[1],
                              lineMap |-> buildLineMap(truncated[1])]),
          halted |-> st.totalChars + Len(truncated[1]) > maxTotalChars]

\* a faulty test of what truncate returned: only null is skipped, an empty patch is emitted
AcceptSection_EmitsEmptyPatch(st, f, call, truncated) ==
    IF truncated = <<>>
    THEN [st EXCEPT !.call = <<[call EXCEPT !.out = truncated]>>]
    ELSE [call |-> <<[call EXCEPT !.out = truncated]>>,
          totalChars |-> st.totalChars + Len(truncated[1]),
          results |-> Append(st.results,
                             [path |-> f.path, patch |-> truncated[1],
                              lineMap |-> buildLineMap(truncated[1])]),
          halted |-> st.totalChars + Len(truncated[1]) >= maxTotalChars]

\* parse(), after the noise test: the section was not noise, its cleaned patch and the budget
\* left went to truncate, which returned truncated
AcceptSection(st, f, call, truncated) ==
    IF truncated = <<>> \/ truncated = <<"">>
    THEN [st EXCEPT !.call = <<[call EXCEPT !.out = truncated]>>]
    ELSE [call |-> <<[call EXCEPT !.out = truncated]>>,
          totalChars |-> st.totalChars + Len(truncated[1]),
          results |-> Append(st.results,
                             [path |-> f.path, patch |-> truncated[1],
                              lineMap |-> buildLineMap(truncated[1])]),
          halted |-> st.totalChars + Len(truncated[1]) >= maxTotalChars]

TruncateCall(st, f, patch, remaining) ==
    AcceptSection(st, f, [patch |-> patch, remaining |-> remaining, out |-> <<>>],
                  truncate(patch, remaining))

\* a faulty loop body: a noise section is dropped only after its patch was charged to
\* the budget
ParseIter_NoiseChargedToBudget(st, f) ==
    IF isNoise(f.path, f.raw)
    THEN [st EXCEPT !.call = <<>>, !.totalChars = st.totalChars + Len(cleanPatch(f.raw))]
    ELSE TruncateCall(st, f, cleanPatch(f.raw), maxTotalChars - st.totalChars)

\* the body of the for loop of parse() for one section f, on the loop's state
\* [results, totalChars, halted]; call records the truncate call made, if any
ParseIter(st, f) ==
    IF isNoise(f.path, f.raw) THEN [st EXCEPT !.call = <<>>]
    ELSE TruncateCall(st, f, cleanPatch(f.raw), maxTotalChars - st.totalChars)

\* a faulty join: the blocks follow each other with no blank line between them
RECURSIVE serialize_NoBlankLine(_)
serialize_NoBlankLine(diffs) ==
    IF Len(diffs) = 0 THEN ""
    ELSE LET block == "=== FILE: " \o diffs[1].path \o " ===\n" \o diffs[1].patch
         IN  IF Len(diffs) = 1 THEN block ELSE block \o "\n" \o serialize_NoBlankLine(Tail(diffs))

\* diffs.map(...).join("\n\n")
RECURSIVE serialize(_)
serialize(diffs) ==
    IF Len(diffs) = 0 THEN ""
    ELSE LET block == "=== FILE: " \o diffs[1].path \o " ===\n" \o diffs[1].patch
         IN  IF Len(diffs) = 1 THEN block ELSE block \o "\n\n" \o serialize(Tail(diffs))

\* the for loop of parse() from section i on, with its break
RECURSIVE ParseLoop(_, _, _)
ParseLoop(st, files, i) ==
    IF i > Len(files) \/ st.halted THEN st
    ELSE ParseLoop(ParseIter(st, files[i]), files, i + 1)

ParseStart == [results |-> <<>>, totalChars |-> 0, halted |-> FALSE, call |-> <<>>]

\* parse(rawDiff) as a whole
parse(diff) ==
    IF diff = "" \/ Len(Trim(diff)) = 0 THEN <<>>
    ELSE ParseLoop(ParseStart, splitByFile(diff), 1).results

(***************************************************************************)
(* The reconciler (pr-handler.ts).                                         *)
(***************************************************************************)

\* new Map(fileDiffs.map((d) => [d.path, d])): the last FileDiff of a path wins
FileMapOf(fileDiffs) ==
    LET paths == {fileDiffs[i].path : i \in 1..Len(fileDiffs)}
    IN  [p \in paths |->
            fileDiffs[CHOOSE i \in 1..Len(fileDiffs) :
                        /\ fileDiffs[i].path = p
                        /\ \A j \in 1..Len(fileDiffs) : fileDiffs[j].path = p => j <= i]]

\* raw.file.replace(/^(\.\/|\/)+/, "")
RECURSIVE NormalisePath(_)
NormalisePath(file) ==
    IF StartsWith(file, "./") THEN NormalisePath(SubSeq(file, 3, Len(file)))
    ELSE IF StartsWith(file, "/") THEN NormalisePath(SubSeq(file, 2, Len(file)))
    ELSE file

\* fileMap.get(normalisedPath) ?? fileMap.get(raw.file): the FileDiff in a 1-tuple, or <<>>
LookupFile(map, file) ==
    IF NormalisePath(file) \in DOMAIN map THEN <<map[NormalisePath(file)]>>
    ELSE IF file \in DOMAIN map THEN <<map[file]>>
    ELSE <<>>

\* Array.from(fileDiff.lineMap.values())
ValidLines(fileDiff) == [i \in 1..Len(fileDiff.lineMap) |-> fileDiff.lineMap[i].v]

\* validLines.reduce((prev, curr) => |curr - line| < |prev - line| ? curr : prev)
RECURSIVE ReduceNearest(_, _, _)
ReduceNearest(prev, rest, line) ==
    IF Len(rest) = 0 THEN prev
    ELSE ReduceNearest(IF Abs(Head(rest) - line) < Abs(prev - line) THEN Head(rest) ELSE prev,
                       Tail(rest), line)

ClampLine(validLines, line) ==
    IF Len(validLines) > 0 /\ ~(\E i \in 1..Len(validLines) : validLines[i] = line)
    THEN ReduceNearest(Head(validLines), Tail(validLines), line)
    ELSE line

\* PushComment without the seen set
PushComment_NoDedupe(st, fileDiff, line) ==
    [result |-> Append(st.result, [path |-> fileDiff.path, line |-> line]),
     seen |-> st.seen \cup {<<fileDiff.path, line>>}]

\* the comment pushed for raw, whose file resolved to fileDiff, unless its key was seen
PushComment(st, fileDiff, line) ==
    IF <<fileDiff.path, line>> \in st.seen THEN st
    ELSE [result |-> Append(st.result, [path |-> fileDiff.path, line |-> line]),
          seen |-> st.seen \cup {<<fileDiff.path, line>>}]

\* ResolveIter skipping the annotations whose line is no lineMap value
ResolveIter_DropsOutOfMap(st, raw, map) ==
    IF LookupFile(map, raw.file) = <<>> THEN st
    ELSE IF \E i \in 1..Len(ValidLines(LookupFile(map, raw.file)[1])) :
                ValidLines(LookupFile(map, raw.file)[1])[i] = raw.line
         THEN PushComment(st, LookupFile(map, raw.file)[1], raw.line)
         ELSE st

\* the body of the for loop of buildGithubComments for one annotation raw, on the
\* loop's state [result, seen]; message and severity pass through and are left out
ResolveIter(st, raw, map) ==
    IF LookupFile(map, raw.file) = <<>> THEN st
    ELSE PushComment(st, LookupFile(map, raw.file)[1],
                     ClampLine(ValidLines(LookupFile(map, raw.file)[1]), raw.line))

(***************************************************************************)
(* The inputs of the model.                                                *)
(***************************************************************************)
HeaderA == "diff --git a/a b/a"
HeaderNoise == "diff --git a/dist/a b/dist/a"
BinaryLine == "Binary files a/a and b/a differ"
FileHeaderLine == "+++ b/a"
HunkLine == "@@ -1,1 +1,2 @@"
HunkLineNoCount == "@@ -3 +5 @@"

\* the lines a raw diff of several files is made of; "" as the last line is a final newline
LinePool == {"", HeaderA, HeaderNoise, BinaryLine, "+x"}

\* the lines the section of one file is made of, after its diff --git line
BodyPool == {FileHeaderLine, HunkLine, HunkLineNoCount, " c", "+x", "-y"}

SeqsUpTo(S, n) == UNION {[1..k -> S] : k \in 0..n}

\* single diffs: a context line and an added line under "+1,2"; an added line under a
\* hunk header whose destination start is 0; blanks and tabs only
HunkLineZero == "@@ -1 +0,0 @@"
LineMapExample == JoinLines(<<HeaderA, HunkLine, " original", "+added">>)
ZeroStartExample == JoinLines(<<HeaderA, HunkLineZero, "+x">>)
\* an added line longer than the largest limit
LongLine == "+xxxxxxxxxxxxxxxxxxxxxxxxxxxxxxxxxxxxxxxxxxxxxxxxxxxxxxxxxxxxxxxxxxxxxxxxxxxxxxxxxxxxxxxxxxxxxxxxxxxxxxxxxxxxxx"
\* two files: the first has a short line and a long one, the second a short line
LongLineExample ==
    JoinLines(<<HeaderA, "+x", LongLine, "diff --git a/b b/b", "+y">>)
ExampleDiffs == {LineMapExample, ZeroStartExample, LongLineExample, "   \n  ", " \t\r\n"}

RawDiffs ==
    {JoinLines(ls) : ls \in SeqsUpTo(LinePool, MaxLines)}
        \cup {JoinLines(<<HeaderA>> \o ls) : ls \in SeqsUpTo(BodyPool, MaxBodyLines)}
        \cup ExampleDiffs

\* config.maxDiffChars: none, one added line, a line and a bit, ample
Limits == {0, 2, 3, 100}

NoCall == [patch |-> "", remaining |-> 0, out |-> <<>>, made |-> FALSE]

\* no review runs
ReviewIdle ==
    /\ rvPc = "idle"
    /\ attempt = 1
    /\ llmCalls = <<>>
    /\ waits = <<>>
    /\ rvOut = <<>>

\* the commits that are new to the cache are numbered from here on
FirstNewSha == 101

\* an empty cache and no call of loadSentinelConfig in progress
CacheIdle ==
    /\ cache = <<>>
    /\ loads = <<>>
    /\ nextSha = FirstNewSha

\* no webhook run
HandlerIdle ==
    /\ hPc = "idle"
    /\ sentinelCfg = <<>>
    /\ effects = <<>>
    /\ reviewLog = <<>>

\* sentinelAI was not called yet
IndexIdle ==
    /\ loaded = FALSE
    /\ factoryCalls = <<>>
    /\ registered = <<>>

AppIdle == ReviewIdle /\ CacheIdle /\ HandlerIdle /\ IndexIdle

ReconIdle ==
    /\ fileMap = <<>>
    /\ comments = <<>>
    /\ resolved = <<>>
    /\ seen = {}

Init ==
    /\ rawDiff \in RawDiffs
    /\ maxTotalChars \in Limits
    /\ pc = "start"
    /\ rawFiles = <<>>
    /\ idx = 1
    /\ results = <<>>
    /\ totalChars = 0
    /\ lastCall = NoCall
    /\ AppIdle
    /\ ReconIdle

\* a faulty guard: a diff with no text is refused instead of answered with []
ParseBegin_BlankIsRefused ==
    /\ pc = "start"
    /\ IF rawDiff = "" \/ Len(Trim(rawDiff)) = 0
       THEN /\ rawFiles' = <<>>
            /\ pc' = "raised"
       ELSE \E files \in {splitByFile(rawDiff)} :
              /\ rawFiles' = files
              /\ pc' = IF Len(files) = 0 THEN "done" ELSE "loop"
    /\ UNCHANGED <<rawDiff, maxTotalChars, idx, results, totalChars, lastCall>>
    /\ UNCHANGED reconVars
    /\ UNCHANGED appVars
    /\ UNCHANGED indexVars

\* parse(), up to the for loop
ParseBegin ==
    /\ pc = "start"
    /\ IF rawDiff = "" \/ Len(Trim(rawDiff)) = 0
       THEN /\ rawFiles' = <<>>
            /\ pc' = "done"
       ELSE \E files \in {splitByFile(rawDiff)} :
              /\ rawFiles' = files
              /\ pc' = IF Len(files) = 0 THEN "done" ELSE "loop"
    /\ UNCHANGED <<rawDiff, maxTotalChars, idx, results, totalChars, lastCall>>
    /\ UNCHANGED reconVars
    /\ UNCHANGED appVars
    /\ UNCHANGED indexVars

\* parse(): one iteration of the for loop, and the return when it was the last
ParseStep ==
    /\ pc = "loop"
    /\ idx <= Len(rawFiles)
    /\ \E st \in {ParseIter([results |-> results, totalChars |-> totalChars,
                             halted |-> FALSE, call |-> <<>>], rawFiles[idx])} :
           /\ results' = st.results
           /\ totalChars' = st.totalChars
           /\ lastCall' = IF st.call = <<>> THEN NoCall
                          ELSE [patch |-> st.call[1].patch,
                                remaining |-> st.call[1].remaining,
                                out |-> st.call[1].out, made |-> TRUE]
           /\ idx' = idx + 1
           /\ pc' = IF st.halted \/ idx = Len(rawFiles) THEN "done" ELSE "loop"
    /\ UNCHANGED <<rawDiff, maxTotalChars, rawFiles>>
    /\ UNCHANGED reconVars
    /\ UNCHANGED appVars
    /\ UNCHANGED indexVars

Next == ParseBegin \/ ParseStep

Spec == Init /\ [][Next]_vars

(***************************************************************************)
(* The reconciler on the FileDiffs of a diff: the annotations of a batch   *)
(* arrive one by one, so every state is the outcome of the batch consumed  *)
(* so far.                                                                 *)
(***************************************************************************)
HeaderSlash == "diff --git a//s b//s"

ReconSections ==
    {JoinLines(<<HeaderA, HunkLineNoCount, "+x", " c", "+x">>),
     JoinLines(<<HeaderA, HunkLine, "-y">>),
     JoinLines(<<HeaderSlash, HunkLineNoCount, "+x", HunkLine, "+x">>),
     JoinLines(<<HeaderNoise, HunkLine, "+x">>)}

ReconDiffs ==
    {JoinLines(ls) : ls \in [1..1 -> ReconSections] \cup [1..2 -> ReconSections]}

\* the annotations an AI response may hold: paths as emitted, with './' or '/' in
\* front, and of no file of the diff; lines in and out of the line maps
Annotations == [file : {"a", "./a", "/s", "zz"}, line : {3, 5, 6, 9}]

InitRecon ==
    /\ rawDiff \in ReconDiffs
    /\ maxTotalChars = 100
    /\ pc = "recon"
    /\ rawFiles = <<>>
    /\ idx = 1
    /\ results = parse(rawDiff)
    /\ totalChars = 0
    /\ lastCall = NoCall
    /\ AppIdle
    /\ fileMap = FileMapOf(results)
    /\ comments = <<>>
    /\ resolved = <<>>
    /\ seen = {}

\* buildGithubComments: one iteration of the for loop
Resolve ==
    /\ pc = "recon"
    /\ Len(comments) < MaxComments
    /\ \E raw \in Annotations :
         \E st \in {ResolveIter([result |-> resolved, seen |-> seen], raw, fileMap)} :
           /\ comments' = Append(comments, raw)
           /\ resolved' = st.result
           /\ seen' = st.seen
    /\ UNCHANGED <<fileMap, pc>>
    /\ UNCHANGED parseVars
    /\ UNCHANGED appVars
    /\ UNCHANGED indexVars

NextRecon == Resolve

SpecRecon == InitRecon /\ [][NextRecon]_vars

(***************************************************************************)
(* The splitter under headers of several paths: parse() over diffs whose    *)
(* diff --git lines are the ones git writes for a path, "diff --git a/<p>   *)
(* b/<p>"; git does not quote a blank in a path.                            *)
(***************************************************************************)
GitHeader(p) == "diff --git a/" \o p \o " b/" \o p

\* a file, a file of a directory, a file of a directory whose name ends in " b"
SplitPaths == {"a", "src/a", "d b/e"}

SplitLinePool == {GitHeader(p) : p \in SplitPaths} \cup {"", "+x"}

SplitDiffs == {JoinLines(ls) : ls \in SeqsUpTo(SplitLinePool, MaxLines)}

InitSplit ==
    /\ rawDiff \in SplitDiffs
    /\ maxTotalChars = 100
    /\ pc = "start"
    /\ rawFiles = <<>>
    /\ idx = 1
    /\ results = <<>>
    /\ totalChars = 0
    /\ lastCall = NoCall
    /\ AppIdle
    /\ fileMap = <<>>
    /\ comments = <<>>
    /\ resolved = <<>>
    /\ seen = {}

SpecSplit == InitSplit /\ [][Next]_vars

(***************************************************************************)
(* The AI service (ai.ts): withRetry, review, parseResponse, validate.      *)
(* A JSON value is a record tagged with its typeof; the property of an      *)
(* object that has no such key is Undefined.                                *)
(***************************************************************************)
MaxAttempts == 3     \* withRetry: maxAttempts
DelayMs == 1000      \* withRetry: delayMs

Undefined == [t |-> "undefined"]
JsonNull == [t |-> "null"]
JsonString(v) == [t |-> "string", str |-> v]
JsonNumber(n) == [t |-> "number", num |-> n]
JsonArray(items) == [t |-> "array", items |-> items]
JsonObject(fields) == [t |-> "object", fields |-> fields]

\* obj[key] of the source
Prop(data, key) ==
    IF data.t = "object" /\ key \in DOMAIN data.fields THEN data.fields[key] ELSE Undefined

\* the error validate throws for comment c at index i (0-based), in a 1-tuple, or <<>>
CommentError(c, i) ==
    IF c.t \notin {"object", "array"}
    THEN <<[msg |-> "Comment is not an object", i |-> i]>>
    ELSE IF Prop(c, "file").t # "string" THEN <<[msg |-> "Comment missing file", i |-> i]>>
    ELSE IF Prop(c, "line").t # "number" THEN <<[msg |-> "Comment missing line", i |-> i]>>
    ELSE IF Prop(c, "message").t # "string"
    THEN <<[msg |-> "Comment missing message", i |-> i]>>
    ELSE IF ~(Prop(c, "severity").t = "string" /\ Prop(c, "severity").str \in {"HIGH", "MED", "LOW"})
    THEN <<[msg |-> "Comment severity must be HIGH | MED | LOW", i |-> i]>>
    ELSE <<>>

\* the ReviewComment validate returns for a comment that passed
CommentOf(c) ==
    [file |-> Prop(c, "file").str, line |-> Prop(c, "line").num,
     message |-> Prop(c, "message").str, severity |-> Prop(c, "severity").str]

\* a faulty validate: the score is tested for its type only
validate_ScoreUnbounded(data) ==
    IF data.t \notin {"object", "array"}
    THEN [ok |-> FALSE, error |-> [msg |-> "AI response is not an object", i |-> 0]]
    ELSE IF Prop(data, "summary").t # "string"
    THEN [ok |-> FALSE, error |-> [msg |-> "AI response missing summary string", i |-> 0]]
    ELSE IF Prop(data, "score").t # "number"
    THEN [ok |-> FALSE, error |-> [msg |-> "AI response score must be a number between 1 and 10", i |-> 0]]
    ELSE IF Prop(data, "comments").t # "array"
    THEN [ok |-> FALSE, error |-> [msg |-> "AI response missing comments array", i |-> 0]]
    ELSE LET cs == Prop(data, "comments").items
             bad == {i \in 1..Len(cs) : CommentError(cs[i], i - 1) # <<>>}
         IN  IF bad # {}
             THEN [ok |-> FALSE,
                   error |-> CommentError(cs[CHOOSE i \in bad : \A j \in bad : i <= j],
                                          (CHOOSE i \in bad : \A j \in bad : i <= j) - 1)[1]]
             ELSE [ok |-> TRUE,
                   value |-> [summary |-> Prop(data, "summary").str,
                              score |-> Prop(data, "score").num,
                              comments |-> [i \in 1..Len(cs) |-> CommentOf(cs[i])]]]

\* validate(data): [ok |-> TRUE, value |-> ReviewResponse] or [ok |-> FALSE, error |-> thrown]
validate(data) ==
    IF data.t \notin {"object", "array"}
    THEN [ok |-> FALSE, error |-> [msg |-> "AI response is not an object", i |-> 0]]
    ELSE IF Prop(data, "summary").t # "string"
    THEN [ok |-> FALSE, error |-> [msg |-> "AI response missing summary string", i |-> 0]]
    ELSE IF \/ Prop(data, "score").t # "number"
            \/ Prop(data, "score").num < 1
            \/ Prop(data, "score").num > 10
    THEN [ok |-> FALSE, error |-> [msg |-> "AI response score must be a number between 1 and 10", i |-> 0]]
    ELSE IF Prop(data, "comments").t # "array"
    THEN [ok |-> FALSE, error |-> [msg |-> "AI response missing comments array", i |-> 0]]
    ELSE LET cs == Prop(data, "comments").items
             bad == {i \in 1..Len(cs) : CommentError(cs[i], i - 1) # <<>>}
         IN  IF bad # {}
             THEN [ok |-> FALSE,
                   error |-> CommentError(cs[CHOOSE i \in bad : \A j \in bad : i <= j],
                                          (CHOOSE i \in bad : \A j \in bad : i <= j) - 1)[1]]
             ELSE [ok |-> TRUE,
                   value |-> [summary |-> Prop(data, "summary").str,
                              score |-> Prop(data, "score").num,
                              comments |-> [i \in 1..Len(cs) |-> CommentOf(cs[i])]]]

\* the text of the LLM, given by what JSON.parse makes of it once the markdown fences
\* are stripped: the value in a 1-tuple, or <<>> when JSON.parse throws
RawText(json) == [json |-> json]

\* parseResponse(raw)
parseResponse(raw) ==
    IF raw.json = <<>>
    THEN [ok |-> FALSE, error |-> [msg |-> "AI returned non-JSON payload", i |-> 0]]
    ELSE validate(raw.json[1])

\* the payloads of the LLM: a well-formed response has a summary, a score and comments
JsonComment(file, line, severity) ==
    JsonObject([file |-> JsonString(file), line |-> JsonNumber(line),
                message |-> JsonString("m"), severity |-> JsonString(severity)])
JsonResponse(summary, score, cs) ==
    JsonObject([summary |-> summary, score |-> score, comments |-> cs])

\* scores on both sides of the thresholds of the label and of APPROVE
Scores == {4, 8, 10}

\* annotations for the FileDiff of path "a" whose lineMap values are 5 and 7: on a
\* mapped line, on a path of no FileDiff, on a line that is clamped to 5
CommentLists ==
    {<<>>,
     <<JsonComment("a", 5, "HIGH")>>,
     <<JsonComment("zz", 5, "HIGH")>>,
     <<JsonComment("a", 5, "LOW")>>,
     <<JsonComment("a", 5, "LOW"), JsonComment("./a", 6, "MED")>>,
     <<JsonComment("a", 7, "MED"), JsonComment("zz", 5, "HIGH")>>}

ValidPayloads ==
    {JsonResponse(JsonString("s"), JsonNumber(n), JsonArray(cs)) : n \in Scores, cs \in CommentLists}

\* one field of the schema broken in each
InvalidPayloads ==
    {JsonNull,
     JsonString("s"),
     JsonArray(<<>>),
     JsonResponse(JsonNumber(1), JsonNumber(8), JsonArray(<<>>)),
     JsonResponse(JsonString("s"), JsonString("8"), JsonArray(<<>>)),
     JsonResponse(JsonString("s"), JsonNumber(0), JsonArray(<<>>)),
     JsonResponse(JsonString("s"), JsonNumber(11), JsonArray(<<>>)),
     JsonResponse(JsonString("s"), JsonNumber(8), Undefined),
     JsonResponse(JsonString("s"), JsonNumber(8), JsonArray(<<JsonNull>>)),
     JsonResponse(JsonString("s"), JsonNumber(8),
                  JsonArray(<<JsonComment("a", 5, "LOW"),
                              JsonObject([file |-> JsonNumber(1), line |-> JsonNumber(5),
                                          message |-> JsonString("m"),
                                          severity |-> JsonString("LOW")])>>)),
     JsonResponse(JsonString("s"), JsonNumber(8),
                  JsonArray(<<JsonObject([file |-> JsonString("a"), line |-> JsonString("5"),
                                          message |-> JsonString("m"),
                                          severity |-> JsonString("LOW")])>>)),
     JsonResponse(JsonString("s"), JsonNumber(8),
                  JsonArray(<<JsonObject([file |-> JsonString("a"), line |-> JsonNumber(5),
                                          severity |-> JsonString("LOW")])>>)),
     JsonResponse(JsonString("s"), JsonNumber(8), JsonArray(<<JsonComment("a", 5, "CRITICAL")>>))}

RawTexts == {RawText(<<d>>) : d \in ValidPayloads \cup InvalidPayloads} \cup {RawText(<<>>)}

\* what one call of fn does at attempt a: it returns a text, or it throws (the request
\* fails, or the text is empty)
CallOutcomes(a) ==
    {[ok |-> TRUE, raw |-> r] : r \in RawTexts}
        \cup {[ok |-> FALSE, error |-> [msg |-> m, i |-> a]] :
                  m \in {"request failed", "returned an empty response"}}

diffVars == <<parseVars, pc, reconVars>>

\* a faulty loop: the wait is made after the last failed attempt as well
ReviewAttempt_WaitsAfterLast(out) ==
    IF out.ok
    THEN [pc |-> IF parseResponse(out.raw).ok THEN "returned" ELSE "thrown",
          out |-> <<parseResponse(out.raw)>>, attempt |-> attempt]
    ELSE IF attempt <= MaxAttempts
    THEN [pc |-> "wait", out |-> <<>>, attempt |-> attempt]
    ELSE [pc |-> "thrown", out |-> <<[ok |-> FALSE, error |-> out.error]>>,
          attempt |-> attempt + 1]

\* one pass of the loop of withRetry in review(), for the outcome out of the call of
\* fn: on success withRetry returns and review() returns or throws what parseResponse
\* does; on failure the loop waits when attempts are left, and throws lastError if not
ReviewAttempt(out) ==
    IF out.ok
    THEN [pc |-> IF parseResponse(out.raw).ok THEN "returned" ELSE "thrown",
          out |-> <<parseResponse(out.raw)>>, attempt |-> attempt]
    ELSE IF attempt < MaxAttempts
    THEN [pc |-> "wait", out |-> <<>>, attempt |-> attempt]
    ELSE [pc |-> "thrown", out |-> <<[ok |-> FALSE, error |-> out.error]>>,
          attempt |-> attempt + 1]

\* withRetry: fn is called
LlmCall ==
    /\ rvPc = "call"
    /\ attempt <= MaxAttempts
    /\ \E out \in CallOutcomes(attempt) :
         \E nxt \in {ReviewAttempt(out)} :
           /\ llmCalls' = Append(llmCalls, out)
           /\ rvPc' = nxt.pc
           /\ rvOut' = nxt.out
           /\ attempt' = nxt.attempt
    /\ UNCHANGED waits
    /\ UNCHANGED <<diffVars, cacheVars, handlerVars>>
    /\ UNCHANGED indexVars

\* withRetry: the delay between a failed attempt and the next one
RetryWait ==
    /\ rvPc = "wait"
    /\ waits' = Append(waits, DelayMs * attempt)
    /\ attempt' = attempt + 1
    /\ rvPc' = "call"
    /\ UNCHANGED <<llmCalls, rvOut>>
    /\ UNCHANGED <<diffVars, cacheVars, handlerVars>>
    /\ UNCHANGED indexVars

InitReview ==
    /\ rawDiff = ""
    /\ maxTotalChars = 100
    /\ pc = "review"
    /\ rawFiles = <<>>
    /\ idx = 1
    /\ results = <<>>
    /\ totalChars = 0
    /\ lastCall = NoCall
    /\ ReconIdle
    /\ rvPc = "call"
    /\ attempt = 1
    /\ llmCalls = <<>>
    /\ waits = <<>>
    /\ rvOut = <<>>
    /\ CacheIdle
    /\ HandlerIdle
    /\ IndexIdle

NextReview == LlmCall \/ RetryWait

SpecReview == InitReview /\ [][NextReview]_vars

(***************************************************************************)
(* The per-commit config cache (pr-handler.ts: sentinelConfigCache,         *)
(* loadSentinelConfig) and validateSentinelConfig (sentinel-config.ts).     *)
(* A Map is the sequence of its entries in insertion order; the field at    *)
(* of an entry numbers the insertions, to tell which entry is the oldest.   *)
(***************************************************************************)
CacheLimit == 50     \* sentinelConfigCache.size > 50

JsonBool(b) == [t |-> "boolean", bool |-> b]

\* a YAML map with the keys of SentinelConfig; Undefined stands for a key that is absent
YamlMap(ignore, minSeverity, postSummary) ==
    JsonObject([ignore |-> ignore, minSeverity |-> minSeverity, postSummary |-> postSummary])

EmptyConfig == [ignore |-> Undefined, minSeverity |-> Undefined, postSummary |-> Undefined]

\* validateSentinelConfig(raw): [valid |-> TRUE, config |-> ..] or [valid |-> FALSE]
validateSentinelConfig(raw) ==
    IF raw.t \in {"null", "undefined"} THEN [valid |-> TRUE, config |-> EmptyConfig]
    ELSE IF raw.t # "object" THEN [valid |-> FALSE]
    ELSE LET ignoreBad ==
                 /\ Prop(raw, "ignore").t # "undefined"
                 /\ \/ Prop(raw, "ignore").t # "array"
                    \/ \E i \in 1..Len(Prop(raw, "ignore").items) :
                           Prop(raw, "ignore").items[i].t # "string"
             severityBad ==
                 /\ Prop(raw, "minSeverity").t # "undefined"
                 /\ ~(/\ Prop(raw, "minSeverity").t = "string"
                      /\ Prop(raw, "minSeverity").str \in {"HIGH", "MED", "LOW"})
             summaryBad ==
                 /\ Prop(raw, "postSummary").t # "undefined"
                 /\ Prop(raw, "postSummary").t # "boolean"
         IN  IF ignoreBad \/ severityBad \/ summaryBad THEN [valid |-> FALSE]
             ELSE [valid |-> TRUE,
                   config |-> [ignore |-> Prop(raw, "ignore"),
                               minSeverity |-> Prop(raw, "minSeverity"),
                               postSummary |-> Prop(raw, "postSummary")]]

\* what repos.getContent and yaml.load give for .sentinel.yaml: the request or the
\* YAML parser throws, the response has no content string, or a document is parsed
ContentResponses ==
    {[kind |-> "throws"], [kind |-> "nocontent"]}
        \cup {[kind |-> "content", doc |-> d] :
                  d \in {JsonNull, JsonString("x"),
                         YamlMap(Undefined, JsonString("BLOCKER"), Undefined),
                         YamlMap(Undefined, Undefined, JsonString("no")),
                         YamlMap(JsonArray(<<JsonNumber(1)>>), Undefined, Undefined),
                         YamlMap(Undefined, JsonString("HIGH"), Undefined),
                         YamlMap(Undefined, JsonString("MED"), JsonBool(FALSE)),
                         YamlMap(JsonArray(<<JsonString("docs")>>), JsonString("LOW"), Undefined)}}

\* the body of loadSentinelConfig between the await and the cache update
LoadResult(resp) ==
    IF resp.kind = "content" /\ validateSentinelConfig(resp.doc).valid
    THEN validateSentinelConfig(resp.doc).config
    ELSE EmptyConfig

CacheHas(c, sha) == \E i \in 1..Len(c) : c[i].sha = sha
CacheGet(c, sha) == c[CHOOSE i \in 1..Len(c) : c[i].sha = sha].cfg

\* Map.set: the value of a key that is present is replaced in place, a new key is
\* appended
CacheSet(c, sha, cfg) ==
    IF CacheHas(c, sha)
    THEN [i \in 1..Len(c) |-> IF c[i].sha = sha THEN [c[i] EXCEPT !.cfg = cfg] ELSE c[i]]
    ELSE Append(c, [sha |-> sha, cfg |-> cfg,
                    at |-> IF Len(c) = 0 THEN 1 ELSE c[Len(c)].at + 1])

\* a faulty eviction: the key inserted last is deleted
Evict_DeletesNewest(c) ==
    IF Len(c) > CacheLimit THEN SubSeq(c, 1, Len(c) - 1) ELSE c

\* if (size > 50) delete(keys().next().value)
Evict(c) ==
    IF Len(c) > CacheLimit THEN Tail(c) ELSE c

\* sentinelConfigCache.set(sha, result) and the eviction after it
StoreConfig(c, sha, cfg) == Evict(CacheSet(c, sha, cfg))

\* a call of loadSentinelConfig: its position, its commit, what it returned, and
\* whether it called repos.getContent
NoLoad == [pc |-> "idle", sha |-> 0, cfg |-> EmptyConfig, called |-> FALSE]

\* loadSentinelConfig up to its await: a commit of the cache is answered from it
BeginLoad(c, sha) ==
    IF CacheHas(c, sha)
    THEN [pc |-> "returned", sha |-> sha, cfg |-> CacheGet(c, sha), called |-> FALSE]
    ELSE [pc |-> "await", sha |-> sha, cfg |-> EmptyConfig, called |-> TRUE]

\* .sentinel.yaml of a commit does not change: the commits with an odd number have
\* one with minSeverity HIGH, the others have none (the request throws)
ContentAt(sha) ==
    IF sha % 2 = 1
    THEN [kind |-> "content", doc |-> YamlMap(Undefined, JsonString("HIGH"), Undefined)]
    ELSE [kind |-> "throws"]

\* the commits a webhook run can name: a new one, the oldest one, the one cached last,
\* one another run is loading
ShaChoices ==
    (IF nextSha < FirstNewSha + MaxNewShas THEN {nextSha} ELSE {})
        \cup {1}
        \cup (IF Len(cache) > 0 THEN {cache[Len(cache)].sha} ELSE {})
        \cup {loads[q].sha : q \in {q \in 1..MaxRuns : loads[q].pc = "await"}}

\* a webhook run enters loadSentinelConfig
LoadBegin ==
    /\ hPc = "idle"
    /\ \E r \in 1..MaxRuns :
         /\ loads[r].pc = "idle"
         /\ \E sha \in ShaChoices :
              /\ loads' = [loads EXCEPT ![r] = BeginLoad(cache, sha)]
              /\ nextSha' = IF sha = nextSha THEN nextSha + 1 ELSE nextSha
    /\ UNCHANGED cache
    /\ UNCHANGED <<diffVars, reviewVars, handlerVars>>
    /\ UNCHANGED indexVars

\* repos.getContent of a run settles: the result is cached and returned
LoadEnd ==
    /\ hPc = "idle"
    /\ \E r \in 1..MaxRuns :
         /\ loads[r].pc = "await"
         /\ \E cfg \in {LoadResult(ContentAt(loads[r].sha))} :
              /\ cache' = StoreConfig(cache, loads[r].sha, cfg)
              /\ loads' = [loads EXCEPT ![r].pc = "returned", ![r].cfg = cfg]
    /\ UNCHANGED nextSha
    /\ UNCHANGED <<diffVars, reviewVars, handlerVars>>
    /\ UNCHANGED indexVars

\* the run takes what loadSentinelConfig returned and goes on
LoadReturn ==
    /\ hPc = "idle"
    /\ \E r \in 1..MaxRuns :
         /\ loads[r].pc = "returned"
         /\ loads' = [loads EXCEPT ![r] = NoLoad]
    /\ UNCHANGED <<cache, nextSha>>
    /\ UNCHANGED <<diffVars, reviewVars, handlerVars>>
    /\ UNCHANGED indexVars

\* the cache after loadSentinelConfig ran for the commits 1..k, one after the other
Prefill(k) == [i \in 1..k |-> [sha |-> i, cfg |-> LoadResult(ContentAt(i)), at |-> i]]

\* an empty cache, and one that is two entries short of its limit
PrefillSizes == {0, CacheLimit - 2}

InitCache ==
    /\ rawDiff = ""
    /\ maxTotalChars = 100
    /\ pc = "cache"
    /\ rawFiles = <<>>
    /\ idx = 1
    /\ results = <<>>
    /\ totalChars = 0
    /\ lastCall = NoCall
    /\ ReconIdle
    /\ ReviewIdle
    /\ HandlerIdle
    /\ cache \in {Prefill(k) : k \in PrefillSizes}
    /\ loads = [r \in 1..MaxRuns |-> NoLoad]
    /\ nextSha = FirstNewSha
    /\ IndexIdle

NextCache == LoadBegin \/ LoadEnd \/ LoadReturn

SpecCache == InitCache /\ [][NextCache]_vars

(***************************************************************************)
(* The pull_request handler (registerPRHandler).  A step is taken when the *)
(* request the handler awaits settles; it covers the code up to the next   *)
(* await.  effects holds the write requests to GitHub in the order they    *)
(* settled, with whether they succeeded.                                   *)
(***************************************************************************)

\* context.payload.pull_request.head.sha of the event handled
HeadSha == 1

SeverityRank(severity) ==
    IF severity = "HIGH" THEN 3 ELSE IF severity = "MED" THEN 2
    ELSE IF severity = "LOW" THEN 1 ELSE 0

\* SEVERITY_RANK[sentinelCfg.minSeverity ?? "LOW"] ?? 1
MinRank(cfg) ==
    IF cfg.minSeverity.t = "undefined" THEN SeverityRank("LOW")
    ELSE IF SeverityRank(cfg.minSeverity.str) = 0 THEN 1
    ELSE SeverityRank(cfg.minSeverity.str)

\* review.comments.filter(c => (SEVERITY_RANK[c.severity] ?? 0) >= minRank)
FilterBySeverity(cs, cfg) ==
    LET AtLeastMin(c) == SeverityRank(c.severity) >= MinRank(cfg)
    IN  SelectSeq(cs, AtLeastMin)

\* the for loop of buildGithubComments over the comments from index i on
RECURSIVE ResolveLoop(_, _, _, _)
ResolveLoop(st, cs, map, i) ==
    IF i > Len(cs) THEN st ELSE ResolveLoop(ResolveIter(st, cs[i], map), cs, map, i + 1)

buildGithubComments(cs, map) == ResolveLoop([result |-> <<>>, seen |-> {}], cs, map, 1)

\* the label applyScoreLabel picks for a score
ScoreLabel(score) ==
    IF score >= 9 THEN "sentinel: excellent"
    ELSE IF score >= 7 THEN "sentinel: good"
    ELSE IF score >= 5 THEN "sentinel: needs work"
    ELSE "sentinel: critical"

HasHigh(cs) == \E i \in 1..Len(cs) : cs[i].severity = "HIGH"

\* the event postReview sends
ReviewEvent(review, githubComments) ==
    IF review.score >= 8 /\ Len(githubComments) = 0 THEN "APPROVE"
    ELSE IF HasHigh(review.comments) THEN "REQUEST_CHANGES"
    ELSE "COMMENT"

CountSeverity(cs, severity) == Cardinality({i \in 1..Len(cs) : cs[i].severity = severity})

\* the entry pushed to reviewLog; ts, repo and pr are those of the event
LogEntry(review) ==
    [score |-> review.score,
     highCount |-> CountSeverity(review.comments, "HIGH"),
     medCount |-> CountSeverity(review.comments, "MED"),
     lowCount |-> CountSeverity(review.comments, "LOW")]

\* the diffs pulls.get returns: none, one of a lock file only, one of file a whose
\* line map holds the lines 5 and 7
NoiseOnlyDiff == JoinLines(<<HeaderNoise, HunkLine, "+x">>)
ReviewableDiff == JoinLines(<<HeaderA, HunkLineNoCount, "+x", "@@ -6 +7 @@", "+x">>)
HandlerDiffs == {"", NoiseOnlyDiff, ReviewableDiff}

\* the error the catch block holds: what review() threw, or the failed request
CaughtError ==
    IF rvPc = "thrown" THEN rvOut[1].error.msg ELSE "request failed"

Effect(call, ok, arg) == [call |-> call, ok |-> ok, arg |-> arg]

\* pulls.get settles: fetchDiff throws, or returns null for an empty diff, or the diff;
\* with a diff the handler enters loadSentinelConfig, which returns the cached config
\* or calls repos.getContent
FetchDiff ==
    /\ hPc = "fetch"
    /\ \/ /\ hPc' = "catch"
          /\ UNCHANGED <<rawDiff, sentinelCfg>>
       \/ \E d \in HandlerDiffs :
            /\ rawDiff' = d
            /\ IF d = "" THEN hPc' = "done" /\ UNCHANGED sentinelCfg
               ELSE \E l \in {BeginLoad(cache, HeadSha)} :
                      IF l.pc = "returned"
                      THEN hPc' = "parse" /\ sentinelCfg' = <<l.cfg>>
                      ELSE hPc' = "content" /\ UNCHANGED sentinelCfg
    /\ UNCHANGED <<effects, reviewLog>>
    /\ UNCHANGED <<maxTotalChars, rawFiles, idx, results, totalChars, lastCall, pc, reconVars>>
    /\ UNCHANGED <<reviewVars, cacheVars>>
    /\ UNCHANGED indexVars

\* repos.getContent settles: loadSentinelConfig caches its result and returns it
ContentSettles ==
    /\ hPc = "content"
    /\ \E resp \in ContentResponses :
         /\ cache' = StoreConfig(cache, HeadSha, LoadResult(resp))
         /\ sentinelCfg' = <<LoadResult(resp)>>
    /\ hPc' = "parse"
    /\ UNCHANGED <<effects, reviewLog, loads, nextSha>>
    /\ UNCHANGED <<diffVars, reviewVars>>
    /\ UNCHANGED indexVars

\* the handler parses the diff; with no FileChange it returns, else it calls review()
ParseDiff ==
    /\ hPc = "parse"
    /\ results' = parse(rawDiff)
    /\ IF Len(parse(rawDiff)) = 0
       THEN /\ hPc' = "done"
            /\ UNCHANGED rvPc
       ELSE /\ hPc' = "review"
            /\ rvPc' = "call"
    /\ UNCHANGED <<sentinelCfg, effects, reviewLog>>
    /\ UNCHANGED <<rawDiff, maxTotalChars, rawFiles, idx, totalChars, lastCall, pc, reconVars>>
    /\ UNCHANGED <<attempt, llmCalls, waits, rvOut, cacheVars>>
    /\ UNCHANGED indexVars

\* review() threw: the catch block calls issues.createComment
ReviewThrows ==
    /\ hPc = "review"
    /\ rvPc = "thrown"
    /\ hPc' = "catch"
    /\ UNCHANGED <<sentinelCfg, effects, reviewLog>>
    /\ UNCHANGED <<diffVars, reviewVars, cacheVars>>
    /\ UNCHANGED indexVars

\* review() returned: the comments are filtered and mapped, and applyScoreLabel calls
\* issues.createLabel
ReviewReturns ==
    /\ hPc = "review"
    /\ rvPc = "returned"
    /\ \E filtered \in {FilterBySeverity(rvOut[1].value.comments, sentinelCfg[1])} :
         \E st \in {buildGithubComments(filtered, FileMapOf(results))} :
           /\ comments' = filtered
           /\ fileMap' = FileMapOf(results)
           /\ resolved' = st.result
           /\ seen' = st.seen
    /\ hPc' = "createLabel"
    /\ UNCHANGED <<sentinelCfg, effects, reviewLog>>
    /\ UNCHANGED <<parseVars, pc, reviewVars, cacheVars>>
    /\ UNCHANGED indexVars

\* issues.createLabel settles: a failure is swallowed, issues.addLabels is called
CreateLabelSettles ==
    /\ hPc = "createLabel"
    /\ \E ok \in BOOLEAN :
         effects' = Append(effects, Effect("createLabel", ok, ScoreLabel(rvOut[1].value.score)))
    /\ hPc' = "addLabels"
    /\ UNCHANGED <<sentinelCfg, reviewLog>>
    /\ UNCHANGED <<diffVars, reviewVars, cacheVars>>
    /\ UNCHANGED indexVars

\* issues.addLabels settles: postReview calls pulls.createReview, or the catch block runs
AddLabelsSettles ==
    /\ hPc = "addLabels"
    /\ \E ok \in BOOLEAN :
         /\ effects' = Append(effects, Effect("addLabels", ok, ScoreLabel(rvOut[1].value.score)))
         /\ hPc' = IF ok THEN "createReview" ELSE "catch"
    /\ UNCHANGED <<sentinelCfg, reviewLog>>
    /\ UNCHANGED <<diffVars, reviewVars, cacheVars>>
    /\ UNCHANGED indexVars

\* a faulty step: the entry is pushed to reviewLog whether or not the review was posted
CreateReviewSettles_LogsFailedReview ==
    /\ hPc = "createReview"
    /\ \E ok \in BOOLEAN :
         /\ effects' = Append(effects,
                              Effect("createReview", ok,
                                     [event |-> ReviewEvent(rvOut[1].value, resolved),
                                      comments |-> resolved,
                                      summary |-> sentinelCfg[1].postSummary # JsonBool(FALSE)]))
         /\ reviewLog' = Append(reviewLog, LogEntry(rvOut[1].value))
         /\ hPc' = IF ok THEN "done" ELSE "catch"
    /\ UNCHANGED sentinelCfg
    /\ UNCHANGED <<diffVars, reviewVars, cacheVars>>
    /\ UNCHANGED indexVars

\* pulls.createReview settles: the entry is pushed to reviewLog, or the catch block runs
CreateReviewSettles ==
    /\ hPc = "createReview"
    /\ \E ok \in BOOLEAN :
         /\ effects' = Append(effects,
                              Effect("createReview", ok,
                                     [event |-> ReviewEvent(rvOut[1].value, resolved),
                                      comments |-> resolved,
                                      summary |-> sentinelCfg[1].postSummary # JsonBool(FALSE)]))
         /\ reviewLog' = IF ok THEN Append(reviewLog, LogEntry(rvOut[1].value)) ELSE reviewLog
         /\ hPc' = IF ok THEN "done" ELSE "catch"
    /\ UNCHANGED sentinelCfg
    /\ UNCHANGED <<diffVars, reviewVars, cacheVars>>
    /\ UNCHANGED indexVars

\* issues.createComment of the catch block settles: the handler returns, or rejects
CreateCommentSettles ==
    /\ hPc = "catch"
    /\ \E ok \in BOOLEAN :
         /\ effects' = Append(effects, Effect("createComment", ok, CaughtError))
         /\ hPc' = IF ok THEN "done" ELSE "rejected"
    /\ UNCHANGED <<sentinelCfg, reviewLog>>
    /\ UNCHANGED <<diffVars, reviewVars, cacheVars>>
    /\ UNCHANGED indexVars

\* a pull_request event arrives; the config of its commit is cached or not
InitHandler ==
    /\ rawDiff = ""
    /\ maxTotalChars = 100
    /\ pc = "handler"
    /\ rawFiles = <<>>
    /\ idx = 1
    /\ results = <<>>
    /\ totalChars = 0
    /\ lastCall = NoCall
    /\ ReconIdle
    /\ ReviewIdle
    /\ cache \in {Prefill(k) : k \in {0, 1}}
    /\ loads = <<>>
    /\ nextSha = FirstNewSha
    /\ hPc = "fetch"
    /\ sentinelCfg = <<>>
    /\ effects = <<>>
    /\ reviewLog = <<>>
    /\ IndexIdle

NextHandler ==
    \/ FetchDiff
    \/ ContentSettles
    \/ ParseDiff
    \/ LlmCall
    \/ RetryWait
    \/ ReviewThrows
    \/ ReviewReturns
    \/ CreateLabelSettles
    \/ AddLabelsSettles
    \/ CreateReviewSettles
    \/ CreateCommentSettles

SpecHandler == InitHandler /\ [][NextHandler]_vars

(***************************************************************************)
(* The application factory (index.ts).  Probot calls sentinelAI with an    *)
(* app and options; factoryCalls and registered record what was called.    *)
(***************************************************************************)

\* the Probot instances the factory can be handed
Apps == {1, 2}

\* a faulty factory: it registers on every call
Register_NoGuard(wasLoaded, app, getRouter) ==
    <<[fn |-> "registerPRHandler", app |-> app]>>
        \o (IF getRouter THEN <<[fn |-> "registerDashboard", app |-> app]>> ELSE <<>>)

\* the registrations one call of sentinelAI makes, given the flag it finds
Register(wasLoaded, app, getRouter) ==
    IF wasLoaded THEN <<>>
    ELSE <<[fn |-> "registerPRHandler", app |-> app]>>
             \o (IF getRouter THEN <<[fn |-> "registerDashboard", app |-> app]>> ELSE <<>>)

\* sentinelAI(app, options), with or without options.getRouter
sentinelAI ==
    /\ Len(factoryCalls) < MaxFactoryCalls
    /\ \E app \in Apps, getRouter \in BOOLEAN :
         /\ factoryCalls' = Append(factoryCalls, [app |-> app, getRouter |-> getRouter])
         /\ registered' = registered \o Register(loaded, app, getRouter)
    /\ loaded' = TRUE
    /\ UNCHANGED <<diffVars, appVars>>

InitIndex ==
    /\ rawDiff = ""
    /\ maxTotalChars = 100
    /\ pc = "index"
    /\ rawFiles = <<>>
    /\ idx = 1
    /\ results = <<>>
    /\ totalChars = 0
    /\ lastCall = NoCall
    /\ ReconIdle
    /\ AppIdle

NextIndex == sentinelAI

SpecIndex == InitIndex /\ [][NextIndex]_vars

(***************************************************************************)
(* Properties.                                                             *)
(***************************************************************************)
LinesOf(fd) == SplitLines(fd.patch)
Keys(fd) == {fd.lineMap[i].k : i \in 1..Len(fd.lineMap)}
Values(fd) == {fd.lineMap[i].v : i \in 1..Len(fd.lineMap)}
IsHunkHeader(line) == HunkMatch(line) # <<>>

RECURSIVE SumLen(_)
SumLen(fds) == IF Len(fds) = 0 THEN 0 ELSE Len(Head(fds).patch) + SumLen(Tail(fds))

\* C1: every comment the reconciler returns names the path of a FileDiff of the table
\* and a line that is a value of that FileDiff's lineMap.
C1_ResolvedLineInLineMap ==
    \A i \in 1..Len(resolved) :
        /\ resolved[i].path \in DOMAIN fileMap
        /\ fileMap[resolved[i].path].path = resolved[i].path
        /\ resolved[i].line \in Values(fileMap[resolved[i].path])

\* an added line of a patch: a '+' line of a hunk, that is, one with a hunk header
\* somewhere before it
IsAddedLine(lines, k) ==
    /\ StartsWith(lines[k], "+")
    /\ \E h \in 1..(k - 1) : IsHunkHeader(lines[h])

\* C2: in every FileDiff of parse(), the keys of lineMap are line numbers of patch, and
\* k is a key exactly when line k of patch is an added line; file headers, hunk
\* headers, context lines, removed lines and the truncation marker are never keys.
C2_KeysAreTheAddedLines ==
    \A i \in 1..Len(results) :
        /\ Keys(results[i]) \subseteq 1..Len(LinesOf(results[i]))
        /\ \A k \in 1..Len(LinesOf(results[i])) :
               k \in Keys(results[i]) <=> IsAddedLine(LinesOf(results[i]), k)

\* the hunk header in force at line k of lines: its index, 0 when there is none
HunkBefore(lines, k) ==
    LET hs == {h \in 1..k : IsHunkHeader(lines[h])}
    IN  IF hs = {} THEN 0 ELSE CHOOSE h \in hs : \A g \in hs : g <= h

\* the counter before the first line after index h: c - 1 for the header at h, and
\* the counter's initial value 0 when there is no header
CounterAt(lines, h) == IF h = 0 THEN 0 ELSE ParseInt(HunkMatch(lines[h])[1]) - 1

Advancing(lines, h, k) ==
    Cardinality({j \in (h + 1)..k : StartsWith(lines[j], "+") \/ StartsWith(lines[j], " ")})

\* C3: the line map holds one entry for every '+' line that is no hunk header, in the
\* order of the lines, and the entry of offset k is c - 1 plus the number of added and
\* context lines after the most recent hunk header up to and including line k; the
\* entries of earlier hunks stay when a later header resets the counter.
C3_LineMapCountsFromHunkStart ==
    \A i \in 1..Len(results) :
        LET lines == LinesOf(results[i])
            map == results[i].lineMap
        IN  /\ Keys(results[i]) =
                 {k \in 1..Len(lines) : StartsWith(lines[k], "+") /\ ~IsHunkHeader(lines[k])}
            /\ \A a, b \in 1..Len(map) : a < b => map[a].k < map[b].k
            /\ \A a \in 1..Len(map) :
                 map[a].v = CounterAt(lines, HunkBefore(lines, map[a].k))
                              + Advancing(lines, HunkBefore(lines, map[a].k), map[a].k)

\* a FileDiff of two hunks with an entry in each, the second hunk starting elsewhere
C3_Witness ==
    \E i \in 1..Len(results) :
        \E a, b \in 1..Len(results[i].lineMap) :
            LET lines == LinesOf(results[i])
                map == results[i].lineMap
            IN  /\ a < b
                /\ HunkBefore(lines, map[a].k) > 0
                /\ HunkBefore(lines, map[b].k) > HunkBefore(lines, map[a].k)
                /\ map[b].v < map[a].v

\* the texts made of the first m >= 1 whole lines of patch
WholeLinePrefixes(patch) ==
    {JoinLines(SubSeq(SplitLines(patch), 1, m)) : m \in 1..Len(SplitLines(patch))}

\* C4: whenever truncate returns a text other than patch, that text is whole lines of
\* patch, cut at a line boundary, followed by the truncation marker line, also when
\* the first line of patch is longer than remaining.
C4_TruncatesAtLineBoundary ==
    (lastCall.made /\ lastCall.out # <<>> /\ lastCall.out # <<lastCall.patch>>)
        => \E pre \in WholeLinePrefixes(lastCall.patch) :
               lastCall.out = <<pre \o TruncationMarker>>

\* C5: for a positive limit, the patches of the FileDiffs of one parse() call are
\* together no longer than maxTotalChars.
C5_TotalWithinLimit ==
    maxTotalChars > 0 => SumLen(results) <= maxTotalChars

\* the last iteration handed truncate a patch longer than the budget left, which was > 0
Oversize(call) == call.made /\ call.remaining > 0 /\ Len(call.patch) > call.remaining

\* C6: an iteration of parse() whose cleaned patch is longer than the budget left, the
\* budget left being > 0, emits a FileDiff for the section, whose patch is no longer
\* than the budget left plus the truncation marker line with its newline.
C6_OversizeSectionEmitted ==
    [][(pc = "loop" /\ Oversize(lastCall'))
         => /\ Len(results') = Len(results) + 1
            /\ SubSeq(results', 1, Len(results)) = results
            /\ results'[Len(results')].path = rawFiles[idx].path
            /\ results'[Len(results')].patch = lastCall'.out[1]
            /\ Len(results'[Len(results')].patch)
                 <= lastCall'.remaining + Len(TruncationMarker)]_vars

\* a section was truncated and emitted
C6_Witness ==
    /\ Oversize(lastCall)
    /\ Len(results) > 0
    /\ results[Len(results)].patch = lastCall.out[1]
    /\ Len(lastCall.out[1]) > lastCall.remaining

\* C7: truncate returns nothing when remaining <= 0 and patch itself when it fits; the
\* running total is the sum of the lengths of the patches emitted so far, grows by the
\* length of each patch emitted and never decreases.
C7_TotalIsSumOfEmitted ==
    /\ [](/\ (lastCall.made /\ lastCall.remaining <= 0) => lastCall.out = <<>>
          /\ (lastCall.made /\ lastCall.remaining > 0
                /\ Len(lastCall.patch) <= lastCall.remaining)
               => lastCall.out = <<lastCall.patch>>
          /\ totalChars = SumLen(results))
    /\ [][/\ totalChars' >= totalChars
          /\ Len(results') = Len(results) + 1
               => totalChars' = totalChars + Len(results'[Len(results')].patch)
          /\ Len(results') = Len(results) => totalChars' = totalChars]_vars

\* a second section was accepted after a first, the last patch cut to the budget left
C7_Witness ==
    /\ Len(results) = 2
    /\ Oversize(lastCall)
    /\ totalChars = Len(results[1].patch) + Len(results[2].patch)

\* C8: once the running total has reached the limit after a section was accepted, the
\* loop is left, and every FileDiff of the output was accepted while the total was
\* below the limit.
C8_HaltsWhenBudgetSpent ==
    /\ (Len(results) > 0 /\ totalChars >= maxTotalChars) => pc = "done"
    /\ \A i \in 1..Len(results) : SumLen(SubSeq(results, 1, i - 1)) < maxTotalChars

\* parse() returned with the budget spent and a reviewable section never looked at
C8_Witness ==
    /\ pc = "done"
    /\ Len(results) > 0
    /\ totalChars >= maxTotalChars
    /\ \E j \in idx..Len(rawFiles) :
           ~isNoise(rawFiles[j].path, rawFiles[j].raw) /\ cleanPatch(rawFiles[j].raw) # ""

NotNoisePath(f) == ~MatchesNoisePattern(f.path)

\* C9: a section whose path matches a noise pattern is not in the output of parse() and
\* consumes no budget: the output and the total are those of the diff's other sections
\* alone, and serialize() emits no block for a noise file.
C9_NoiseSectionsLeaveNoTrace ==
    pc = "done"
        => /\ \A i \in 1..Len(results) : ~MatchesNoisePattern(results[i].path)
           /\ results = ParseLoop(ParseStart, SelectSeq(rawFiles, NotNoisePath), 1).results
           /\ totalChars = ParseLoop(ParseStart, SelectSeq(rawFiles, NotNoisePath), 1).totalChars
           /\ \A j \in 1..Len(rawFiles) :
                  MatchesNoisePattern(rawFiles[j].path)
                      => ~Contains(serialize(results), "=== FILE: " \o rawFiles[j].path \o " ===")

\* a noise section with added lines came before a section that was emitted
C9_Witness ==
    /\ pc = "done"
    /\ Len(results) > 0
    /\ \E j \in 1..Len(rawFiles) :
           /\ MatchesNoisePattern(rawFiles[j].path)
           /\ cleanPatch(rawFiles[j].raw) # ""
           /\ \E k \in (j + 1)..Len(rawFiles) : rawFiles[k].path = results[Len(results)].path

\* the line after the diff --git line of a section is the binary-file marker
BodyBeginsBinary(raw) ==
    Len(SplitLines(raw)) >= 2 /\ StartsWith(SplitLines(raw)[2], "Binary files ")

\* C10: isNoise is true of every section of the splitter whose body begins with the
\* binary-file marker line, whatever its path.
C10_BinarySectionIsNoise ==
    \A j \in 1..Len(rawFiles) :
        BodyBeginsBinary(rawFiles[j].raw) => isNoise(rawFiles[j].path, rawFiles[j].raw)

\* line k of a section is a line of a hunk: a hunk header, or an added, removed or
\* context line that comes after a hunk header
IsHunkLineAt(lines, k) ==
    \/ IsHunkHeader(lines[k])
    \/ /\ StartsWith(lines[k], "+") \/ StartsWith(lines[k], "-") \/ StartsWith(lines[k], " ")
       /\ \E h \in 1..(k - 1) : IsHunkHeader(lines[h])

RECURSIVE HunkLinesUpTo(_, _)
HunkLinesUpTo(lines, k) ==
    IF k = 0 THEN <<>>
    ELSE HunkLinesUpTo(lines, k - 1) \o (IF IsHunkLineAt(lines, k) THEN <<lines[k]>> ELSE <<>>)

\* C11: cleanPatch keeps, in their order, exactly the lines of a section that are hunk
\* headers or added, removed or context lines of a hunk, and discards every other
\* line, the diff --git line and the file-header lines among them.
C11_CleanPatchKeepsHunkLinesOnly ==
    \A j \in 1..Len(rawFiles) :
        cleanPatch(rawFiles[j].raw)
            = JoinLines(HunkLinesUpTo(SplitLines(rawFiles[j].raw), Len(SplitLines(rawFiles[j].raw))))

IsGitHeader(line) == \E p \in SplitPaths : line = GitHeader(p)
PathOfHeader(line) == CHOOSE p \in SplitPaths : line = GitHeader(p)

\* the destination paths of the diff --git lines among the first k lines, in order
RECURSIVE HeaderPathsUpTo(_, _)
HeaderPathsUpTo(lines, k) ==
    IF k = 0 THEN <<>>
    ELSE HeaderPathsUpTo(lines, k - 1)
             \o (IF IsGitHeader(lines[k]) THEN <<PathOfHeader(lines[k])>> ELSE <<>>)

\* C12: the splitter returns one section for every diff --git line of the diff, in the
\* order of the lines, each with the destination path of its line and beginning with
\* that line; the text before the first diff --git line gives no section.
C12_OneSectionPerHeader ==
    pc # "start"
        => /\ [j \in 1..Len(rawFiles) |-> rawFiles[j].path]
                  = HeaderPathsUpTo(SplitLines(rawDiff), Len(SplitLines(rawDiff)))
           /\ \A j \in 1..Len(rawFiles) :
                  /\ IsGitHeader(SplitLines(rawFiles[j].raw)[1])
                  /\ PathOfHeader(SplitLines(rawFiles[j].raw)[1]) = rawFiles[j].path

\* C13: no two FileDiffs of the sequence parse() returns have the same path, also when
\* two diff --git lines of the diff name the same destination path.
C13_PathsAreUnique ==
    \A i, j \in 1..Len(results) : results[i].path = results[j].path => i = j

\* v is the value of vals nearest to line, and the first such value in the order of vals
IsFirstNearest(vals, line, v) ==
    \E i \in 1..Len(vals) :
        /\ vals[i] = v
        /\ \A j \in 1..Len(vals) : Abs(vals[j] - line) >= Abs(v - line)
        /\ \A j \in 1..(i - 1) : Abs(vals[j] - line) > Abs(v - line)

\* the law of the resolved line v of an annotation on line, for the lineMap values vals
ClampLaw(vals, line, v) ==
    IF \E i \in 1..Len(vals) : vals[i] = line THEN v = line ELSE IsFirstNearest(vals, line, v)

\* C14: the line of a comment the reconciler emits is the annotation's line when that
\* line is a value of the FileDiff's lineMap, and otherwise the lineMap value nearest
\* to it, the first one in insertion order among the values at the same distance.
C14_ClampsToFirstNearestValue ==
    [][Len(resolved') = Len(resolved) + 1
          => ClampLaw(ValidLines(LookupFile(fileMap, comments'[Len(comments')].file)[1]),
                      comments'[Len(comments')].line,
                      resolved'[Len(resolved')].line)]_vars

\* the same law for the FileDiffs whose lineMap has an entry
ClampLawOnNonEmptyMaps ==
    [][(/\ Len(resolved') = Len(resolved) + 1
        /\ Len(ValidLines(LookupFile(fileMap, comments'[Len(comments')].file)[1])) > 0)
          => ClampLaw(ValidLines(LookupFile(fileMap, comments'[Len(comments')].file)[1]),
                      comments'[Len(comments')].line,
                      resolved'[Len(resolved')].line)]_vars

\* annotation c names a FileDiff of the table, by its stripped or by its raw path
PathResolves(c) == NormalisePath(c.file) \in DOMAIN fileMap \/ c.file \in DOMAIN fileMap

\* the (path, line) pair annotation c resolves to, in a 1-tuple, or <<>>
ResolutionOf(c) ==
    IF ~PathResolves(c) THEN <<>>
    ELSE LET fd == LookupFile(fileMap, c.file)[1]
         IN  <<[path |-> fd.path, line |-> ClampLine(ValidLines(fd), c.line)]>>

\* the index of the first annotation that resolves to pair
FirstIndex(pair) ==
    CHOOSE k \in 1..Len(comments) :
        /\ ResolutionOf(comments[k]) = <<pair>>
        /\ \A j \in 1..(k - 1) : ResolutionOf(comments[j]) # <<pair>>

\* C15: no two comments of the reconciler's output have the same (path, line) pair;
\* every comment is the resolution of an annotation, and the comments stand in the
\* order of the first annotations that resolve to their pairs.
C15_NoDuplicatePairs ==
    /\ \A i, j \in 1..Len(resolved) : resolved[i] = resolved[j] => i = j
    /\ \A i \in 1..Len(resolved) :
           \E k \in 1..Len(comments) : ResolutionOf(comments[k]) = <<resolved[i]>>
    /\ \A i, j \in 1..Len(resolved) :
           i < j => FirstIndex(resolved[i]) < FirstIndex(resolved[j])

\* two annotations on different lines were clamped to the same line and one was emitted
C15_Witness ==
    /\ Len(comments) = 2
    /\ comments[1].line # comments[2].line
    /\ ResolutionOf(comments[1]) # <<>>
    /\ ResolutionOf(comments[1]) = ResolutionOf(comments[2])
    /\ Len(resolved) = 1

\* the annotations that have a comment in the output: the path resolves and no
\* earlier annotation resolved to the same pair
Emitted ==
    {k \in 1..Len(comments) :
        /\ PathResolves(comments[k])
        /\ \A j \in 1..(k - 1) : ResolutionOf(comments[j]) # ResolutionOf(comments[k])}

OneHunkOneAdded(lines) ==
    /\ Len(lines) >= 2
    /\ IsHunkHeader(lines[1])
    /\ \A k \in 2..Len(lines) :
           /\ ~IsHunkHeader(lines[k])
           /\ StartsWith(lines[k], "+") \/ StartsWith(lines[k], "-") \/ StartsWith(lines[k], " ")
    /\ Cardinality({k \in 2..Len(lines) : StartsWith(lines[k], "+")}) = 1

\* the new-file line of line k of such a patch: the header's destination start plus
\* the number of context lines between the header and line k
NewFileLineOf(lines, k) ==
    ParseInt(HunkMatch(lines[1])[1])
        + Cardinality({j \in 2..(k - 1) : StartsWith(lines[j], " ")})

\* the lineMap of a FileDiff whose patch is one hunk with a single added line, and
\* nothing before the hunk header, has exactly one entry, from the offset of the added
\* line to its new-file line number
SingleAddedLineLaw ==
    \A i \in 1..Len(results) :
        /\ OneHunkOneAdded(LinesOf(results[i]))
               => \E k \in 2..Len(LinesOf(results[i])) :
                      /\ StartsWith(LinesOf(results[i])[k], "+")
                      /\ results[i].lineMap
                             = <<[k |-> k, v |-> NewFileLineOf(LinesOf(results[i]), k)]>>
        /\ results[i].patch = "@@ -1,1 +1,2 @@\n original\n+added"
               => results[i].lineMap = <<[k |-> 3, v |-> 2]>>

\* the lines of the hunks of section f
HunkLinesOf(f) == HunkLinesUpTo(SplitLines(f.raw), Len(SplitLines(f.raw)))

\* C17: when the one section of a diff has one hunk with a single added line and its
\* patch is emitted whole, the lineMap of its FileDiff has exactly one entry, and the
\* value of that entry is the new-file line number of the added line (line 2 for the
\* header "@@ -1,1 +1,2 @@" with the body " original", "+added").
C17_SingleAddedLineMapsToItsFileLine ==
    (/\ pc = "done"
     /\ Len(rawFiles) = 1
     /\ Len(results) = 1
     /\ OneHunkOneAdded(HunkLinesOf(rawFiles[1]))
     /\ results[1].patch = cleanPatch(rawFiles[1].raw))
        => /\ Len(results[1].lineMap) = 1
           /\ \E k \in 2..Len(HunkLinesOf(rawFiles[1])) :
                  /\ StartsWith(HunkLinesOf(rawFiles[1])[k], "+")
                  /\ results[1].lineMap[1].v = NewFileLineOf(HunkLinesOf(rawFiles[1]), k)

\* C18: every key and every value of the lineMap of a FileDiff of parse() is at least 1,
\* also under a hunk header whose destination start is 0 and for added lines that
\* precede every hunk header.
C18_LineMapEntriesArePositive ==
    \A i \in 1..Len(results) :
        \A e \in 1..Len(results[i].lineMap) :
            results[i].lineMap[e].k >= 1 /\ results[i].lineMap[e].v >= 1

\* s has no character other than blanks, tabs and line ends
IsBlank(s) == \A i \in 1..Len(s) : IsSpace(CharAt(s, i))

\* C19: for the empty diff and for every diff of white space only, parse() returns the
\* empty sequence at once: no section is made and the call ends without an error.
C19_BlankDiffGivesNoFileDiff ==
    (pc # "start" /\ IsBlank(rawDiff))
        => pc = "done" /\ rawFiles = <<>> /\ results = <<>> /\ totalChars = 0

\* parse() has returned for a diff of blanks and line ends
C19_Witness ==
    /\ pc = "done"
    /\ rawDiff = "   \n  "
    /\ results = <<>>

DelimiterOf(fd) == "=== FILE: " \o fd.path \o " ==="

\* the lines of the blocks of fds: for each FileDiff its delimiter line and the lines
\* of its patch, and one empty line between two blocks
RECURSIVE BlockLines(_)
BlockLines(fds) ==
    IF Len(fds) = 0 THEN <<>>
    ELSE <<DelimiterOf(Head(fds))>> \o LinesOf(Head(fds))
             \o (IF Len(fds) = 1 THEN <<>> ELSE <<"">> \o BlockLines(Tail(fds)))

\* C20: serialize() renders the FileDiffs in their order, each as one delimiter line
\* "=== FILE: <path> ===" followed at once by the lines of its patch, with one empty
\* line between two blocks; there are as many delimiter lines as FileDiffs.
C20_SerializeBlocks ==
    LET out == serialize(results)
    IN  /\ Len(results) > 0 => SplitLines(out) = BlockLines(results)
        /\ Len(results) = 0 => out = ""
        /\ Len(results) > 0
               => Cardinality({n \in 1..Len(SplitLines(out)) :
                                   StartsWith(SplitLines(out)[n], "=== FILE: ")})
                      = Len(results)

\* parse() returned two FileDiffs
C20_Witness ==
    /\ pc = "done"
    /\ Len(results) = 2
    /\ Contains(serialize(results), "\n\n=== FILE: ")

\* C21: review() calls the LLM at most 3 times, and never again after a call that
\* succeeded; what it returns is made of the text of that call; when 3 calls failed it
\* throws the error of the third; the waits are 1000 ms times the number of the failed
\* attempt, one after each failed attempt that is followed by another, none after the
\* last attempt.
C21_AtMostThreeCallsWaitsBetween ==
    /\ Len(llmCalls) <= 3
    /\ \A i \in 1..(Len(llmCalls) - 1) : ~llmCalls[i].ok
    /\ rvPc = "returned"
           => /\ llmCalls[Len(llmCalls)].ok
              /\ rvOut = <<parseResponse(llmCalls[Len(llmCalls)].raw)>>
    /\ (Len(llmCalls) = 3 /\ ~llmCalls[3].ok)
           => /\ rvPc = "thrown"
              /\ rvOut = <<[ok |-> FALSE, error |-> llmCalls[3].error]>>
              /\ rvOut[1].error.i = 3
    /\ Len(waits) = (IF rvPc = "call" THEN Len(llmCalls) ELSE Len(llmCalls) - 1)
    /\ \A k \in 1..Len(waits) : waits[k] = 1000 * k /\ k < 3

\* three calls failed and review() threw, after the waits of 1000 and 2000 ms
C21_Witness ==
    /\ rvPc = "thrown"
    /\ Len(llmCalls) = 3
    /\ ~llmCalls[3].ok
    /\ waits = <<1000, 2000>>

\* C22: review() throws for a text that is no JSON or breaks the schema only when the
\* 3 attempts are used up: such a text makes the LLM be called again.
C22_InvalidPayloadIsRetried ==
    (rvPc = "thrown" /\ llmCalls[Len(llmCalls)].ok) => Len(llmCalls) = 3

\* run r calls repos.getContent in this step
CallsGetContent(r) == loads[r].pc = "idle" /\ loads'[r].pc = "await"

\* C25: repos.getContent is called at most once for a commit as long as the commit is
\* not evicted, also when two runs for the commit overlap: a run calls it only for a
\* commit that has no entry in the cache and that no other run is loading.
C25_OneContentCallPerCachedSha ==
    [][\A r \in 1..MaxRuns :
           CallsGetContent(r)
               => /\ ~CacheHas(cache, loads'[r].sha)
                  /\ \A q \in 1..MaxRuns :
                         q # r => ~(loads[q].pc = "await" /\ loads[q].sha = loads'[r].sha)]_vars

\* a run that enters loadSentinelConfig for a commit of the cache returns the cached
\* config and calls nothing; a run calls repos.getContent only for a commit that has
\* no entry
CachedShaIsAnsweredFromCache ==
    [][\A r \in 1..MaxRuns :
           /\ (loads[r].pc = "idle" /\ CacheHas(cache, loads'[r].sha) /\ loads'[r].pc # "idle")
                  => /\ loads'[r].pc = "returned"
                     /\ ~loads'[r].called
                     /\ loads'[r].cfg = CacheGet(cache, loads'[r].sha)
           /\ CallsGetContent(r) => ~CacheHas(cache, loads'[r].sha)]_vars

ShasOf(c) == {c[i].sha : i \in 1..Len(c)}

\* the commit whose entry was inserted first among the entries of c
OldestSha(c) == c[CHOOSE i \in 1..Len(c) : \A j \in 1..Len(c) : c[i].at <= c[j].at].sha

\* C26: the cache never holds more than 50 entries between two steps of the runs; a
\* step inserts at most one commit, and when it inserts one into a cache of 50 entries
\* exactly one entry leaves the cache, the one inserted first; no entry leaves the
\* cache otherwise, and the commit a run has just stored is in the cache.
C26_AtMostFiftyOldestEvicted ==
    /\ [](Len(cache) <= 50)
    /\ [][/\ Cardinality(ShasOf(cache') \ ShasOf(cache)) <= 1
          /\ ShasOf(cache) \ ShasOf(cache')
                 = (IF Len(cache) = 50 /\ ShasOf(cache') \ ShasOf(cache) # {}
                    THEN {OldestSha(cache)} ELSE {})
          /\ \A r \in 1..MaxRuns :
                 (loads[r].pc = "await" /\ loads'[r].pc = "returned")
                     => CacheHas(cache', loads[r].sha)]_vars

\* the cache is full, its oldest entry was evicted, and a new commit is its last entry
C26_Witness ==
    /\ Len(cache) = 50
    /\ ~CacheHas(cache, 1)
    /\ cache[50].sha >= FirstNewSha

\* C27: in what parse() returns at most one FileChange ends with the truncation marker,
\* and it is the last one: no section is emitted after a truncated one.
C27_TruncatedIsLast ==
    pc = "done"
        => \A i \in 1..Len(results) :
               EndsWith(results[i].patch, TruncationMarker) => i = Len(results)

\* the loop of parse() is at a section that is not noise and whose cleaned patch is empty
AtEmptySection ==
    /\ pc = "loop"
    /\ idx <= Len(rawFiles)
    /\ ~isNoise(rawFiles[idx].path, rawFiles[idx].raw)
    /\ cleanPatch(rawFiles[idx].raw) = ""

\* C28: every FileChange of parse() has a path and a patch that are not empty; a section
\* that is not noise and whose cleaned patch is empty adds no FileChange, leaves the
\* budget used as it was, and the loop goes on with the next section if there is one.
C28_NoEmptyFileChange ==
    /\ [](\A i \in 1..Len(results) : results[i].path # "" /\ results[i].patch # "")
    /\ [][AtEmptySection
             => /\ results' = results
                /\ totalChars' = totalChars
                /\ idx' = idx + 1
                /\ pc' = IF idx = Len(rawFiles) THEN "done" ELSE "loop"]_vars

\* a section with an empty cleaned patch was passed over and a later section was emitted
C28_Witness ==
    /\ pc = "done"
    /\ \E j \in 1..Len(rawFiles) :
           /\ ~isNoise(rawFiles[j].path, rawFiles[j].raw)
           /\ cleanPatch(rawFiles[j].raw) = ""
           /\ j < Len(rawFiles)
           /\ Len(results) > 0
           /\ results[Len(results)].patch = cleanPatch(rawFiles[Len(rawFiles)].raw)

\* comment c of a payload is no ReviewComment
CommentBreaksSchema(c) ==
    \/ Prop(c, "file").t # "string"
    \/ Prop(c, "line").t # "number"
    \/ Prop(c, "message").t # "string"
    \/ ~(Prop(c, "severity").t = "string" /\ Prop(c, "severity").str \in {"HIGH", "MED", "LOW"})

\* the text raw is no JSON, or its value is no ReviewResponse
PayloadBreaksSchema(raw) ==
    \/ raw.json = <<>>
    \/ Prop(raw.json[1], "summary").t # "string"
    \/ ~(/\ Prop(raw.json[1], "score").t = "number"
          /\ Prop(raw.json[1], "score").num >= 1
          /\ Prop(raw.json[1], "score").num <= 10)
    \/ Prop(raw.json[1], "comments").t # "array"
    \/ \E i \in 1..Len(Prop(raw.json[1], "comments").items) :
           CommentBreaksSchema(Prop(raw.json[1], "comments").items[i])

\* the LLM answered the handler's review() with such a text
PayloadRefused ==
    /\ Len(llmCalls) > 0
    /\ llmCalls[Len(llmCalls)].ok
    /\ PayloadBreaksSchema(llmCalls[Len(llmCalls)].raw)

CallsOf(call) == {i \in 1..Len(effects) : effects[i].call = call}

\* C23: when the text of the LLM is no JSON or breaks the ReviewResponse schema, the
\* handler requests no label and no review and pushes nothing to reviewLog, and it
\* requests one degraded comment: never more, and one by the time the run is over.
C23_InvalidPayloadOnlyDegradedComment ==
    PayloadRefused
        => /\ CallsOf("createLabel") = {} /\ CallsOf("addLabels") = {}
           /\ CallsOf("createReview") = {}
           /\ hPc \in {"review", "catch", "done", "rejected"}
           /\ reviewLog = <<>>
           /\ Cardinality(CallsOf("createComment")) <= 1
           /\ hPc \in {"done", "rejected"} => Cardinality(CallsOf("createComment")) = 1

\* a run is over whose LLM text was JSON that breaks the schema: the degraded comment
\* with validate's message is all the handler sent
C23_Witness ==
    /\ hPc = "done"
    /\ PayloadRefused
    /\ llmCalls[Len(llmCalls)].raw.json # <<>>
    /\ effects = <<Effect("createComment", TRUE, "Comment severity must be HIGH | MED | LOW")>>

\* C29: no review is requested with the event APPROVE for a response that holds a HIGH
\* comment: the event is APPROVE only when the score is at least 8 and no inline
\* comment goes with the review, REQUEST_CHANGES when the response holds a HIGH
\* comment, COMMENT otherwise.
C29_NeverApproveWithHigh ==
    \A i \in CallsOf("createReview") :
        /\ effects[i].arg.event = "APPROVE"
               => /\ ~HasHigh(rvOut[1].value.comments)
                  /\ rvOut[1].value.score >= 8
                  /\ Len(effects[i].arg.comments) = 0
        /\ HasHigh(rvOut[1].value.comments) => effects[i].arg.event = "REQUEST_CHANGES"
        /\ effects[i].arg.event \in {"APPROVE", "REQUEST_CHANGES", "COMMENT"}

\* the requests of kind call that succeeded
DoneCalls(call) == {i \in CallsOf(call) : effects[i].ok}

\* the catch block of the run was entered
InErrorPath == hPc \in {"catch", "rejected"} \/ CallsOf("createComment") # {}

\* C30: in a run of the handler the LLM is called only when parse() returned a
\* FileChange; a label is requested only with a validated response at hand; the review
\* is requested only after issues.addLabels succeeded; reviewLog has one entry for each
\* review that was posted, pushed right after it, and none when the run took the
\* error path.
C30_EffectsInOrder ==
    /\ [](/\ Len(llmCalls) > 0 => Len(results) > 0
          /\ (CallsOf("createLabel") \cup CallsOf("addLabels")) # {}
                 => rvPc = "returned" /\ rvOut[1].ok
          /\ \A i \in CallsOf("createReview") :
                 \E j \in DoneCalls("addLabels") : j < i
          /\ \A i \in CallsOf("addLabels") : \E j \in CallsOf("createLabel") : j < i
          /\ Len(reviewLog) = Cardinality(DoneCalls("createReview"))
          /\ \A k \in 1..Len(reviewLog) : reviewLog[k] = LogEntry(rvOut[1].value)
          /\ InErrorPath => reviewLog = <<>>)
    /\ [][reviewLog' # reviewLog
             => /\ reviewLog' = Append(reviewLog, LogEntry(rvOut[1].value))
                /\ effects' = Append(effects, effects'[Len(effects')])
                /\ effects'[Len(effects')].call = "createReview"
                /\ effects'[Len(effects')].ok]_vars

\* a run posted its review: label created and added, review posted, one log entry
C30_Witness ==
    /\ hPc = "done"
    /\ Len(effects) = 3
    /\ DoneCalls("createLabel") = {1} /\ DoneCalls("addLabels") = {2}
    /\ DoneCalls("createReview") = {3}
    /\ Len(reviewLog) = 1
    /\ reviewLog[1].highCount = 1

RegistrationsOf(fn) == {i \in 1..Len(registered) : registered[i].fn = fn}

\* C24: however often sentinelAI is called, registerPRHandler and registerDashboard
\* each run at most once, and only in the first call; a later call registers nothing.
C24_RegistrationIsIdempotent ==
    /\ [](/\ Cardinality(RegistrationsOf("registerPRHandler")) <= 1
          /\ Cardinality(RegistrationsOf("registerDashboard")) <= 1
          /\ \A i \in 1..Len(registered) : registered[i].app = factoryCalls[1].app
          /\ RegistrationsOf("registerDashboard") # {} => factoryCalls[1].getRouter)
    /\ [][Len(factoryCalls) >= 1 => registered' = registered]_vars

\* sentinelAI was called three times, the later calls with another app and a router
\* the first call had not: the one registration is that of the first call
C24_Witness ==
    /\ Len(factoryCalls) = 3
    /\ factoryCalls[1] = [app |-> 1, getRouter |-> FALSE]
    /\ factoryCalls[2] = [app |-> 2, getRouter |-> TRUE]
    /\ registered = <<[fn |-> "registerPRHandler", app |-> 1]>>

====
